---- MODULE Spec2Model ----
(***************************************************************************)
(* PurpleAir system: the DataSet class, its cross-table statistics and     *)
(* report, and the zip-filter dialogue of purple_air_system.py.            *)
(*                                                                         *)
(* A DataSet is driven by one single-threaded caller.  Every method call   *)
(* is one action; `call' records the last call with its arguments and      *)
(* `result' what it returned, raised and printed.  manage_filters blocks   *)
(* on input(), so while pc = "manage_filters" only input lines arrive.     *)
(*                                                                         *)
(* Python values: a float is the exact rational [num, den] in lowest       *)
(* terms (the concentrations of the model are whole numbers, whose sums    *)
(* are exact in binary floating point); a dict is the sequence of its      *)
(* <<key, value>> items in insertion order; text read from a file or from  *)
(* the keyboard is a sequence of one-character strings.                    *)
(***************************************************************************)
EXTENDS Integers, Sequences, FiniteSets, TLC

VARIABLES _data, _header, _zips, _times, pc, call, result

vars == <<_data, _header, _zips, _times, pc, call, result>>

(* Number of data rows of the largest CSV file the model loads. *)
MaxRows == 2

---------------------------------------------------------------------------
(* Python values *)

None == [tag |-> "None"]

Some(v) == [tag |-> "Some", val |-> v]

(* Every record of the module lists its fields in the order in which TLC
   normalises them (the order of the names' first occurrence in the module),
   so that normalising a record never reorders it. *)
Return(v, printed) == [val |-> v, kind |-> "return", out |-> printed]

Raise(exc, printed) == [kind |-> "raise", out |-> printed, exc |-> exc]

RECURSIVE GCD(_, _)
GCD(a, b) == IF b = 0 THEN a ELSE GCD(b, a % b)

(* the float num/den, num >= 0 and den > 0 *)
Float(num, den) == [num |-> num \div GCD(num, den), den |-> den \div GCD(num, den)]

FloatAdd(a, b) == Float(a.num * b.den + b.num * a.den, a.den * b.den)

FloatLess(a, b) == a.num * b.den < b.num * a.den

Digits == {"0", "1", "2", "3", "4", "5", "6", "7", "8", "9"}

DigitValue(c) ==
  CASE c = "0" -> 0 [] c = "1" -> 1 [] c = "2" -> 2 [] c = "3" -> 3
    [] c = "4" -> 4 [] c = "5" -> 5 [] c = "6" -> 6 [] c = "7" -> 7
    [] c = "8" -> 8 [] c = "9" -> 9

RECURSIVE DecimalValue(_)
DecimalValue(text) ==
  IF text = << >> THEN 0
  ELSE 10 * DecimalValue(SubSeq(text, 1, Len(text) - 1)) + DigitValue(text[Len(text)])

IsDigits(text) == Len(text) > 0 /\ \A i \in 1..Len(text) : text[i] \in Digits

(* float(text): Some(value), or None where float raises ValueError *)
ParseFloat(text) ==
  IF IsDigits(text) THEN Some(Float(DecimalValue(text), 1)) ELSE None

(* int(text): Some(value), or None where int raises ValueError *)
ParseInt(text) ==
  IF IsDigits(text) THEN Some(DecimalValue(text))
  ELSE IF Len(text) > 1 /\ text[1] \in {"-", "+"} /\ IsDigits(Tail(text))
       THEN Some(IF text[1] = "-" THEN 0 - DecimalValue(Tail(text))
                 ELSE DecimalValue(Tail(text)))
       ELSE None

RECURSIVE PadLeft(_, _)
PadLeft(s, width) == IF Len(s) >= width THEN s ELSE PadLeft(" " \o s, width)

RECURSIVE PadRight(_, _)
PadRight(s, width) == IF Len(s) >= width THEN s ELSE PadRight(s \o " ", width)

(* round(100 * x) of the format spec .2f, ties to even *)
Hundredths(x) ==
  LET q == (100 * x.num) \div x.den
      r == (100 * x.num) % x.den
  IN  IF 2 * r < x.den THEN q
      ELSE IF 2 * r > x.den THEN q + 1
      ELSE IF q % 2 = 0 THEN q ELSE q + 1

(* f"{x : >10.2f}" *)
FormatFloat(x) ==
  LET h == Hundredths(x)
      frac == h % 100
  IN  PadLeft(ToString(h \div 100) \o "." \o
              (IF frac < 10 THEN "0" ELSE "") \o ToString(frac), 10)

(* a dict as the sequence of its items *)
DictKeys(d) == [i \in 1..Len(d) |-> d[i][1]]

DictHas(d, k) == \E i \in 1..Len(d) : d[i][1] = k

DictGet(d, k) == d[CHOOSE i \in 1..Len(d) : d[i][1] = k][2]

(* d[k] = v: an existing key keeps its position *)
DictSet(d, k, v) ==
  IF DictHas(d, k)
  THEN [i \in 1..Len(d) |-> IF d[i][1] = k THEN <<k, v>> ELSE d[i]]
  ELSE Append(d, <<k, v>>)

Range(s) == {s[i] : i \in 1..Len(s)}

(* the orders in which a set may be iterated *)
Orders(S) ==
  {s \in [1..Cardinality(S) -> S] : \A i, j \in 1..Cardinality(S) : s[i] = s[j] => i = j}

---------------------------------------------------------------------------
(* Inputs *)

H30 == "123456789012345678901234567890"

H31 == "1234567890123456789012345678901"

Headers == {"", H30, H31}

ZipCodes == {"12345", "94022"}

TimeLabels == {"Morning", "Midday"}

(* a zip code no row of a file carries *)
ZipArgs == ZipCodes \cup {"00000"}

(* rows of the CSV file *)
CsvRows ==
  {[zip |-> "12345", time |-> "Morning", concentration |-> <<"1">>],
   [zip |-> "12345", time |-> "Morning", concentration |-> <<"0", "3">>],
   [zip |-> "94022", time |-> "Midday", concentration |-> <<"2">>]}

(* a row whose Concentration is not a number *)
MalformedRow ==
  [zip |-> "94022", time |-> "Morning", concentration |-> <<"n", "/", "a">>]

RECURSIVE SeqsUpTo(_, _)
SeqsUpTo(S, n) ==
  IF n = 0 THEN {<< >>}
  ELSE LET shorter == SeqsUpTo(S, n - 1)
       IN  shorter \cup {Append(s, x) : s \in {t \in shorter : Len(t) = n - 1}, x \in S}

CsvFiles ==
  SeqsUpTo(CsvRows, MaxRows)
    \cup {<<MalformedRow>>, <<CHOOSE row \in CsvRows : TRUE, MalformedRow>>}

InputLines ==
  {<< >>, <<"0">>, <<"1">>, <<"2">>, <<"3">>, <<"0", "2">>, <<"+", "1">>,
   <<"-", "1">>, <<"-", "2">>, <<"-", "3">>, <<"a">>, <<"-">>}

StatsKinds == {"MIN", "AVG", "MAX"}

(* MIN and MAX exchanged *)
StatsValueExchanged(stat) ==
  CASE stat = "MIN" -> 2 [] stat = "AVG" -> 1 [] stat = "MAX" -> 0

StatsValue(stat) == CASE stat = "MIN" -> 0 [] stat = "AVG" -> 1 [] stat = "MAX" -> 2

max_header_length == 30

---------------------------------------------------------------------------
(* class DataSet *)

(* the setter with < in place of <= *)
HeaderSetterStrict(current, header) ==
  IF Len(header) < max_header_length
  THEN [result |-> Return(None, << >>), header |-> header]
  ELSE [result |-> Raise("ValueError", << >>), header |-> current]

(* the header setter; the new header and the outcome of the assignment *)
HeaderSetter(current, header) ==
  IF Len(header) <= max_header_length
  THEN [result |-> Return(None, << >>), header |-> header]
  ELSE [result |-> Raise("ValueError", << >>), header |-> current]

(* get_zips: a copy of the dict *)
get_zips(zips) == zips

(* toggle_zip that only ever deactivates *)
toggle_zip_off(zips, target_zip) ==
  IF ~DictHas(zips, target_zip)
  THEN [result |-> Raise("LookupError", << >>), zips |-> zips]
  ELSE [result |-> Return(None, << >>), zips |-> DictSet(zips, target_zip, FALSE)]

(* toggle_zip; the new dict and the outcome *)
toggle_zip(zips, target_zip) ==
  IF ~DictHas(zips, target_zip)
  THEN [result |-> Raise("LookupError", << >>), zips |-> zips]
  ELSE [result |-> Return(None, << >>),
        zips |-> DictSet(zips, target_zip, ~DictGet(zips, target_zip))]

(* {item: True for item in zip_code} *)
RECURSIVE ZipCodeDict(_)
ZipCodeDict(zip_code) ==
  IF zip_code = << >> THEN << >>
  ELSE DictSet(ZipCodeDict(SubSeq(zip_code, 1, Len(zip_code) - 1)),
               zip_code[Len(zip_code)], TRUE)

(* _initialize_labels: the new _zips, and the set whose list becomes _times *)
InitializeLabelsZips(data) == ZipCodeDict([i \in 1..Len(data) |-> data[i][1]])

InitializeLabelsTimes(data) == {data[i][2] : i \in 1..Len(data)}

(* the rows of the file as data_list; None where float() raises ValueError *)
RECURSIVE ReadRows(_)
ReadRows(file) ==
  IF file = << >> THEN Some(<< >>)
  ELSE LET row == file[1]
           concentrations == ParseFloat(row.concentration)
           rest == ReadRows(Tail(file))
       IN  IF concentrations = None \/ rest = None THEN None
           ELSE Some(<<<<row.zip, row.time, concentrations.val>>>> \o rest.val)

(* load_file that keeps the flag of a zip code the dict already holds *)
load_file_keeps_flags(data, zips, file) ==
  LET data_list == ReadRows(file)
      fresh == InitializeLabelsZips(data_list.val)
  IN  IF data_list = None
      THEN [result |-> Raise("ValueError", << >>),
            zips |-> zips, data |-> data, loaded |-> FALSE]
      ELSE [result |-> Return(None,
                        <<<<ToString(Len(data_list.val)) \o " lines loaded">>>>),
            zips |-> [i \in 1..Len(fresh) |->
                        IF DictHas(zips, fresh[i][1])
                        THEN <<fresh[i][1], DictGet(zips, fresh[i][1])>>
                        ELSE fresh[i]],
            data |-> Some(data_list.val),
            loaded |-> TRUE]

(* load_file without the order of _times, which the set iteration picks *)
load_file(data, zips, file) ==
  LET data_list == ReadRows(file)
  IN  IF data_list = None
      THEN [result |-> Raise("ValueError", << >>),
            zips |-> zips, data |-> data, loaded |-> FALSE]
      ELSE [result |-> Return(None,
                        <<<<ToString(Len(data_list.val)) \o " lines loaded">>>>),
            zips |-> InitializeLabelsZips(data_list.val),
            data |-> Some(data_list.val),
            loaded |-> TRUE]

(* [thing[2] for thing in data if thing[0] == one and thing[1] == two] *)
RECURSIVE Matching(_, _, _)
Matching(rows, descriptor_one, descriptor_two) ==
  IF rows = << >> THEN << >>
  ELSE (IF rows[1][1] = descriptor_one /\ rows[1][2] = descriptor_two
        THEN <<rows[1][3]>> ELSE << >>)
       \o Matching(Tail(rows), descriptor_one, descriptor_two)

(* a minimum that starts from a default of zero *)
RECURSIVE SeqMinFromZero(_)
SeqMinFromZero(s) ==
  IF s = << >> THEN Float(0, 1)
  ELSE LET m == SeqMinFromZero(SubSeq(s, 1, Len(s) - 1))
       IN  IF FloatLess(s[Len(s)], m) THEN s[Len(s)] ELSE m

(* min(concentration): the first smallest element *)
RECURSIVE SeqMin(_)
SeqMin(s) ==
  IF Len(s) = 1 THEN s[1]
  ELSE LET m == SeqMin(SubSeq(s, 1, Len(s) - 1))
       IN  IF FloatLess(s[Len(s)], m) THEN s[Len(s)] ELSE m

(* max(concentration): the first largest element *)
RECURSIVE SeqMax(_)
SeqMax(s) ==
  IF Len(s) = 1 THEN s[1]
  ELSE LET m == SeqMax(SubSeq(s, 1, Len(s) - 1))
       IN  IF FloatLess(m, s[Len(s)]) THEN s[Len(s)] ELSE m

RECURSIVE SeqSum(_)
SeqSum(s) ==
  IF s = << >> THEN Float(0, 1)
  ELSE FloatAdd(SeqSum(SubSeq(s, 1, Len(s) - 1)), s[Len(s)])

(* sum(concentration) / len(concentration) *)
Average(s) == Float(SeqSum(s).num, SeqSum(s).den * Len(s))

(* the statistics with "if not self._data" as their first test *)
cross_table_statistics_not_data(data, descriptor_one, descriptor_two) ==
  IF data = None \/ data.val = << >> THEN Raise("EmptyDatasetError", << >>)
  ELSE LET concentration == Matching(data.val, descriptor_one, descriptor_two)
       IN  IF Len(concentration) = 0 THEN Raise("NoMatchingItems", << >>)
           ELSE Return(<<SeqMin(concentration), Average(concentration),
                         SeqMax(concentration)>>, << >>)

_cross_table_statistics(data, descriptor_one, descriptor_two) ==
  IF data = None THEN Raise("EmptyDatasetError", << >>)
  ELSE LET concentration == Matching(data.val, descriptor_one, descriptor_two)
       IN  IF Len(concentration) = 0 THEN Raise("NoMatchingItems", << >>)
           ELSE Return(<<SeqMin(concentration), Average(concentration),
                         SeqMax(concentration)>>, << >>)

(* truth value of self._data *)
Truthy(data) == data # None /\ data.val # << >>

(* the keys of the dict without the filter *)
FilteredZipsUnfiltered(zips) == DictKeys(zips)

(* the keys of {key: value for (key, value) in zips.items() if value is True} *)
FilteredZips(zips) == DictKeys(SelectSeq(zips, LAMBDA item : item[2] = TRUE))

(* one cell of the table: the try statement of display_cross_table *)
Cell(data, zip_code, item, stat) ==
  LET concentrations == _cross_table_statistics(data, zip_code, item)
  IN  IF concentrations.kind = "return"
      THEN [printed |-> FormatFloat(concentrations.val[StatsValue(stat) + 1]),
            exc |-> None]
      ELSE IF concentrations.exc = "NoMatchingItems"
      THEN [printed |-> PadLeft("N/A", 10), exc |-> None]
      ELSE [printed |-> "", exc |-> Some(concentrations.exc)]

NoDatasetNotice == <<<<"Please load a dataset first">>>>

(* display_cross_table: the printed lines, each the fields printed on it;
   an exception that leaves the try statement ends the output there *)
display_cross_table(data, zips, times, stat) ==
  IF ~Truthy(data) THEN Return(None, NoDatasetNotice)
  ELSE LET filtered_zips == FilteredZips(zips)
           head == <<"     ">> \o [j \in 1..Len(times) |-> PadLeft(times[j], 10)]
           line(i) == <<PadRight(filtered_zips[i], 5)>> \o
                      [j \in 1..Len(times) |->
                         Cell(data, filtered_zips[i], times[j], stat).printed]
           failed == {<<i, j>> \in (1..Len(filtered_zips)) \X (1..Len(times)) :
                        Cell(data, filtered_zips[i], times[j], stat).exc # None}
       IN  IF failed = {}
           THEN Return(None, <<head>> \o [i \in 1..Len(filtered_zips) |-> line(i)])
           ELSE LET first == CHOOSE p \in failed :
                               \A q \in failed : p[1] < q[1] \/ (p[1] = q[1] /\ p[2] <= q[2])
                IN  Raise(Cell(data, filtered_zips[first[1]], times[first[2]], stat).exc.val,
                          <<head>> \o [i \in 1..(first[1] - 1) |-> line(i)]
                          \o <<SubSeq(line(first[1]), 1, first[2])>>)

---------------------------------------------------------------------------
(* manage_filters *)

(* list[index] of Python: Some(element), None where it raises IndexError *)
ListIndex(list, index) ==
  IF 0 <= index /\ index < Len(list) THEN Some(list[index + 1])
  ELSE IF index < 0 /\ 0 - index <= Len(list) THEN Some(list[Len(list) + index + 1])
  ELSE None

(* the numbered list printed at the top of each round of the loop *)
Listing(zips_list) ==
  [i \in 1..Len(zips_list) |->
     <<ToString(i) \o ": " \o zips_list[i][1],
       PadLeft(IF zips_list[i][2] = TRUE THEN "ACTIVE" ELSE "INACTIVE", 10)>>]

(* the call of manage_filters up to its first input() *)
manage_filters_enter(zips) ==
  IF get_zips(zips) = << >>
  THEN [pc |-> "caller", result |-> Return(None, NoDatasetNotice)]
  ELSE [pc |-> "manage_filters",
        result |-> Return(None, <<<<"The following labels are in the dataset:">>>>
                                \o Listing(get_zips(zips)))]

(* one line of input: the rest of the round and the listing of the next *)
manage_filters_input(zips, user_input) ==
  LET zips_list == get_zips(zips)
      user_int == ParseInt(user_input)
      selected == ListIndex(zips_list, user_int.val - 1)
      toggled == toggle_zip(zips, selected.val[1])
  IN  IF user_input = << >>
      THEN [pc |-> "caller", result |-> Return(None, << >>), zips |-> zips]
      ELSE IF user_int = None
      THEN [pc |-> "manage_filters",
            result |-> Return(None,
                        <<<<"Please enter a number or enter/return to exit">>>>
                        \o Listing(zips_list)),
            zips |-> zips]
      ELSE IF selected = None
      THEN [pc |-> "manage_filters",
            result |-> Return(None, <<<<"Please enter a number from the list">>>>
                                    \o Listing(zips_list)),
            zips |-> zips]
      ELSE IF toggled.result.kind = "raise"
      THEN [pc |-> "caller", result |-> toggled.result, zips |-> toggled.zips]
      ELSE [pc |-> "manage_filters",
            result |-> Return(None, Listing(get_zips(toggled.zips))),
            zips |-> toggled.zips]

---------------------------------------------------------------------------
(* The caller's steps *)

(* DataSet(header) *)
Init ==
  \E header \in Headers :
    /\ _data = None
    /\ _header = header
    /\ _zips = << >>
    /\ _times = << >>
    /\ pc = "caller"
    /\ call = [op |-> "__init__", args |-> <<header>>]
    /\ result = Return(None, << >>)

SetHeader ==
  \E header \in Headers :
    \E assigned \in {HeaderSetter(_header, header)} :
      /\ pc = "caller"
      /\ _header' = assigned.header
      /\ result' = assigned.result
      /\ call' = [op |-> "header", args |-> <<header>>]
      /\ UNCHANGED <<_data, _zips, _times, pc>>

ToggleZip ==
  \E target_zip \in ZipArgs :
    \E toggled \in {toggle_zip(_zips, target_zip)} :
      /\ pc = "caller"
      /\ _zips' = toggled.zips
      /\ result' = toggled.result
      /\ call' = [op |-> "toggle_zip", args |-> <<target_zip>>]
      /\ UNCHANGED <<_data, _header, _times, pc>>

LoadFile ==
  \E file \in CsvFiles :
    \E loaded \in {load_file(_data, _zips, file)} :
      /\ pc = "caller"
      /\ _data' = loaded.data
      /\ _zips' = loaded.zips
      /\ IF loaded.loaded
         THEN _times' \in Orders(InitializeLabelsTimes(loaded.data.val))
         ELSE _times' = _times
      /\ result' = loaded.result
      /\ call' = [op |-> "load_file", args |-> <<file>>]
      /\ UNCHANGED <<_header, pc>>

CrossTableStatistics ==
  \E descriptor_one \in ZipArgs, descriptor_two \in TimeLabels :
    /\ pc = "caller"
    /\ result' = _cross_table_statistics(_data, descriptor_one, descriptor_two)
    /\ call' = [op |-> "_cross_table_statistics",
                args |-> <<descriptor_one, descriptor_two>>]
    /\ UNCHANGED <<_data, _header, _zips, _times, pc>>

DisplayCrossTable ==
  \E stat \in StatsKinds :
    /\ pc = "caller"
    /\ result' = display_cross_table(_data, _zips, _times, stat)
    /\ call' = [op |-> "display_cross_table", args |-> <<stat>>]
    /\ UNCHANGED <<_data, _header, _zips, _times, pc>>

ManageFilters ==
  \E entered \in {manage_filters_enter(_zips)} :
    /\ pc = "caller"
    /\ pc' = entered.pc
    /\ result' = entered.result
    /\ call' = [op |-> "manage_filters", args |-> << >>]
    /\ UNCHANGED <<_data, _header, _zips, _times>>

ManageFiltersInput ==
  \E user_input \in InputLines :
    \E round \in {manage_filters_input(_zips, user_input)} :
      /\ pc = "manage_filters"
      /\ _zips' = round.zips
      /\ pc' = round.pc
      /\ result' = round.result
      /\ call' = [op |-> "input", args |-> <<user_input>>]
      /\ UNCHANGED <<_data, _header, _times>>

Next ==
  \/ SetHeader
  \/ ToggleZip
  \/ LoadFile
  \/ CrossTableStatistics
  \/ DisplayCrossTable
  \/ ManageFilters
  \/ ManageFiltersInput

Spec == Init /\ [][Next]_vars

---------------------------------------------------------------------------
(* Properties *)

DataSetState == <<_data, _header, _zips, _times>>

Loaded == _data # None

Readings == _data.val

(* the positions of the readings that carry both descriptors *)
MatchingRows(zip, time) ==
  {i \in 1..Len(Readings) : Readings[i][1] = zip /\ Readings[i][2] = time}

RECURSIVE SumOfRows(_)
SumOfRows(rows) ==
  IF rows = {} THEN Float(0, 1)
  ELSE LET i == CHOOSE r \in rows : TRUE
       IN  FloatAdd(Readings[i][3], SumOfRows(rows \ {i}))

FloatLeq(a, b) == ~FloatLess(b, a)

(* the position of the first reading of a zip code *)
FirstSeen(zip) ==
  CHOOSE i \in 1..Len(Readings) :
    Readings[i][1] = zip /\ \A j \in 1..(i - 1) : Readings[j][1] # zip

ActiveZips == {_zips[i][1] : i \in {k \in 1..Len(_zips) : _zips[k][2] = TRUE}}

(* the zip rows of a printed report, none where the notice was printed *)
TableRows(printed) == IF printed = NoDatasetNotice THEN << >> ELSE Tail(printed)

(* C1: after every load the readings are the rows of the source in source
   order, _zips has one entry per distinct zip code of the readings with
   every flag true, and _times holds the distinct time labels of the
   readings, whatever the state before the load was. *)
C1_LoadReplacesState ==
  (call.op = "load_file" /\ result.kind = "return") =>
    LET file == call.args[1]
    IN  /\ Loaded
        /\ Len(Readings) = Len(file)
        /\ \A i \in 1..Len(file) :
             Readings[i] = <<file[i].zip, file[i].time,
                             ParseFloat(file[i].concentration).val>>
        /\ {_zips[i][1] : i \in 1..Len(_zips)} = {file[i].zip : i \in 1..Len(file)}
        /\ \A i, j \in 1..Len(_zips) : _zips[i][1] = _zips[j][1] => i = j
        /\ \A i \in 1..Len(_zips) : _zips[i][2] = TRUE
        /\ Range(_times) = {file[i].time : i \in 1..Len(file)}
        /\ \A i, j \in 1..Len(_times) : _times[i] = _times[j] => i = j

(* a load of two rows of the same zip code *)
C1_Witness ==
  /\ call.op = "load_file"
  /\ result.kind = "return"
  /\ Len(call.args[1]) >= 2
  /\ Len(_zips) < Len(Readings)

(* C2: _cross_table_statistics raises EmptyDatasetError whenever no load
   has occurred; on a loaded dataset, zero rows included, it raises
   NoMatchingItems whenever no reading matches both descriptors and never
   raises EmptyDatasetError; the call changes no DataSet state. *)
C2_StatisticsErrors ==
  [][call'.op = "_cross_table_statistics" =>
       /\ DataSetState' = DataSetState
       /\ ~Loaded => result' = Raise("EmptyDatasetError", << >>)
       /\ Loaded =>
            /\ result'.kind = "raise" => result'.exc # "EmptyDatasetError"
            /\ MatchingRows(call'.args[1], call'.args[2]) = {}
                 => result' = Raise("NoMatchingItems", << >>)]_vars

(* statistics asked of a dataset loaded from a file of zero rows *)
C2_Witness ==
  /\ call.op = "_cross_table_statistics"
  /\ Loaded
  /\ Readings = << >>
  /\ result.kind = "raise"
  /\ result.exc = "NoMatchingItems"

(* C3: for a pair that occurs in a reading, _cross_table_statistics returns
   (min, avg, max) over exactly the matching concentrations: min and max
   are members bounding all of them, avg is their sum over their count,
   min <= avg <= max, min * count <= sum <= max * count, and min is
   positive when every matching concentration is. *)
C3_StatisticsExact ==
  (/\ call.op = "_cross_table_statistics"
   /\ Loaded
   /\ MatchingRows(call.args[1], call.args[2]) # {}) =>
    LET rows == MatchingRows(call.args[1], call.args[2])
        count == Cardinality(rows)
        sum == SumOfRows(rows)
    IN  /\ result.kind = "return"
        /\ LET min == result.val[1]
               avg == result.val[2]
               max == result.val[3]
           IN  /\ \E i \in rows : Readings[i][3] = min
               /\ \E i \in rows : Readings[i][3] = max
               /\ \A i \in rows : FloatLeq(min, Readings[i][3])
               /\ \A i \in rows : FloatLeq(Readings[i][3], max)
               /\ count >= 1
               /\ avg.num * sum.den * count = sum.num * avg.den
               /\ FloatLeq(min, avg) /\ FloatLeq(avg, max)
               /\ min.num * count * sum.den <= sum.num * min.den
               /\ sum.num * max.den <= max.num * count * sum.den
               /\ (\A i \in rows : Readings[i][3].num > 0) => min.num > 0

(* statistics over two matching readings of different concentration *)
C3_Witness ==
  /\ call.op = "_cross_table_statistics"
  /\ result.kind = "return"
  /\ Cardinality(MatchingRows(call.args[1], call.args[2])) >= 2
  /\ FloatLess(result.val[1], result.val[2])
  /\ FloatLess(result.val[2], result.val[3])

(* the zip rows in first-occurrence order of the active zip codes *)
RowsAreActiveZips ==
  LET rows == TableRows(result.out)
  IN  /\ {rows[i][1] : i \in 1..Len(rows)} = {PadRight(zip, 5) : zip \in ActiveZips}
      /\ Len(rows) = Cardinality(ActiveZips)
      /\ \A i, j \in 1..Len(rows) :
           i < j => \E a, b \in ActiveZips :
                      /\ rows[i][1] = PadRight(a, 5)
                      /\ rows[j][1] = PadRight(b, 5)
                      /\ FirstSeen(a) < FirstSeen(b)

(* printed rows without the row of one zip code *)
WithoutRow(rows, zip) == SelectSeq(rows, LAMBDA row : row[1] # PadRight(zip, 5))

(* C4: on a loaded dataset display_cross_table prints exactly one row per
   zip code whose flag is active, in first-occurrence order of the zip
   codes in the readings, and none for an inactive one; a step that turns
   one zip code inactive removes only its row from the report of every
   statistic and leaves the other rows as they were. *)
C4_RowsAreActiveZips ==
  [][/\ (call'.op = "display_cross_table" /\ Loaded')
          => RowsAreActiveZips'
     /\ \A zip \in ZipCodes, stat \in StatsKinds :
          (/\ Loaded
           /\ DictHas(_zips, zip)
           /\ DictGet(_zips, zip) = TRUE
           /\ _zips' = DictSet(_zips, zip, FALSE)
           /\ _data' = _data)
          => TableRows(display_cross_table(_data', _zips', _times', stat).out)
             = WithoutRow(TableRows(display_cross_table(_data, _zips, _times, stat).out),
                          zip)]_vars

(* a report of a dataset of two zip codes, the first of them inactive *)
C4_Witness ==
  /\ call.op = "display_cross_table"
  /\ Loaded
  /\ Len(_zips) = 2
  /\ _zips[1][2] = FALSE
  /\ _zips[2][2] = TRUE
  /\ Len(result.out) = 2
  /\ result.out[2][1] = PadRight(_zips[2][1], 5)

(* the text of the cell of a zip code and a time label *)
ExpectedCell(zip, time, stat) ==
  LET rows == MatchingRows(zip, time)
      least == CHOOSE i \in rows : \A j \in rows : FloatLeq(Readings[i][3], Readings[j][3])
      most == CHOOSE i \in rows : \A j \in rows : FloatLeq(Readings[j][3], Readings[i][3])
      sum == SumOfRows(rows)
  IN  IF rows = {} THEN "       N/A"
      ELSE IF stat = "MIN" THEN FormatFloat(Readings[least][3])
      ELSE IF stat = "MAX" THEN FormatFloat(Readings[most][3])
      ELSE FormatFloat(Float(sum.num, sum.den * Cardinality(rows)))

(* C5: display_cross_table always returns, raising neither NoMatchingItems
   nor EmptyDatasetError; in the table it prints, every active zip code
   has a row with one cell per time label of _times, showing the min, avg
   or max of the matching readings as the statistic asks, and N/A exactly
   when no reading matches the pair. *)
C5_CellsShowStatistic ==
  call.op = "display_cross_table" =>
    /\ result.kind = "return"
    /\ result.out # NoDatasetNotice =>
         LET rows == Tail(result.out)
         IN  /\ \A zip \in ActiveZips : \E i \in 1..Len(rows) : rows[i][1] = PadRight(zip, 5)
             /\ \A i \in 1..Len(rows) :
                  /\ Len(rows[i]) = Len(_times) + 1
                  /\ \A zip \in ActiveZips, j \in 1..Len(_times) :
                       rows[i][1] = PadRight(zip, 5) =>
                         /\ rows[i][j + 1] = ExpectedCell(zip, _times[j], call.args[1])
                         /\ rows[i][j + 1] = "       N/A"
                              <=> MatchingRows(zip, _times[j]) = {}

(* an average table with an N/A cell and an average between min and max *)
C5_Witness ==
  /\ call.op = "display_cross_table"
  /\ call.args[1] = "AVG"
  /\ result.kind = "return"
  /\ result.out # NoDatasetNotice
  /\ \E i \in 2..Len(result.out), j, k \in 2..(Len(_times) + 1) :
       /\ result.out[i][j] = "       N/A"
       /\ result.out[i][k] = "      2.00"

(* C6: toggle_zip of a key of _zips flips only the flag of that key: the
   keys and their order, the other flags, the readings, the time labels
   and the header stay, and a second toggle_zip of the same key gives back
   the dict of before the first. *)
C6_ToggleFlipsOneFlag ==
  [][\A zip \in ZipArgs :
       (call'.op = "toggle_zip" /\ call'.args[1] = zip /\ DictHas(_zips, zip)) =>
         /\ result'.kind = "return"
         /\ Len(_zips') = Len(_zips)
         /\ \A i \in 1..Len(_zips) :
              /\ _zips'[i][1] = _zips[i][1]
              /\ _zips'[i][2] = IF _zips[i][1] = zip THEN ~_zips[i][2] ELSE _zips[i][2]
         /\ <<_data, _times, _header>>' = <<_data, _times, _header>>
         /\ toggle_zip(_zips', zip).zips = _zips]_vars

(* a toggle_zip that turned a zip code active again *)
C6_Witness ==
  /\ call.op = "toggle_zip"
  /\ result.kind = "return"
  /\ DictGet(_zips, call.args[1]) = TRUE

(* C7: the header setter stores any string of at most 30 characters and
   rejects any longer one with ValueError, leaving the stored header as it
   was; in neither case do the readings, _zips or _times change. *)
C7_HeaderSetter ==
  [][call'.op = "header" =>
       LET header == call'.args[1]
       IN  /\ Len(header) <= 30 => (_header' = header /\ result'.kind = "return")
           /\ Len(header) >= 31 =>
                (_header' = _header /\ result' = Raise("ValueError", << >>))
           /\ <<_data, _zips, _times>>' = <<_data, _zips, _times>>]_vars

(* a header of 31 characters rejected, the header of 30 characters kept *)
C7_Witness ==
  /\ call.op = "header"
  /\ Len(call.args[1]) = 31
  /\ result.kind = "raise"
  /\ Len(_header) = 30
  /\ Loaded

(* C8: display_cross_table prints the notice instead of a table if and only
   if no load has occurred; on every loaded dataset, one loaded from zero
   rows included, it prints the table. *)
C8_NoticeIffNeverLoaded ==
  call.op = "display_cross_table" => (result.out = NoDatasetNotice <=> ~Loaded)

(* C9: in every reachable state of a DataSet, from construction with any
   header on, the stored header has at most 30 characters. *)
C9_HeaderAtMost30 == Len(_header) <= 30

(* C10: in manage_filters over N listed zip codes a line of input changes
   _zips only when it is an integer k with 1 <= k <= N, and then it flips
   exactly the zip code listed at position k; any other line leaves every
   flag as it was and the dialogue goes on, the empty line ends it, and no
   line makes toggle_zip raise. *)
C10_OnlyListedNumbersToggle ==
  [][call'.op = "input" =>
       LET line == call'.args[1]
           k == ParseInt(line)
           N == Len(_zips)
       IN  /\ result'.kind = "return"
           /\ IF k # None /\ 1 <= k.val /\ k.val <= N
              THEN /\ _zips' = DictSet(_zips, _zips[k.val][1], ~_zips[k.val][2])
                   /\ pc' = "manage_filters"
              ELSE /\ _zips' = _zips
                   /\ pc' = IF line = << >> THEN "caller" ELSE "manage_filters"]_vars

====
